---- MODULE Spec2Model ----
(***************************************************************************)
(* Model of the Matrix class of src/src/matrix.cc.                         *)
(*                                                                         *)
(* Instances are records (rows_, cols_, matrix_) living in numbered slots; *)
(* matrix_ points into an explicit heap of grids (a row-pointer array and  *)
(* one block per row), so that ownership, release and aliasing of storage  *)
(* are visible.  Elements are fixed-point numbers in units of kAccuracy.   *)
(***************************************************************************)
EXTENDS Integers, Sequences, FiniteSets, TLC

VARIABLES objs, heap, memerr, last, arg, out

vars == <<objs, heap, memerr, last, arg, out>>

(***************************************************************************)
(* Bounds of the model.                                                    *)
(***************************************************************************)
\* number of caller-visible instances whose operations are interleaved
NumObj == 2
\* largest element (in whole units) of the operands an operation is applied to
MaxVal == 1
\* largest entry (in whole units) of the matrices the algorithms are applied to
MaxEntry == 1

(***************************************************************************)
(* Numbers.  A double is modelled as a fixed-point integer counting units  *)
(* of kAccuracy (1e-7), so 1.0 is 10^7 units.                              *)
(***************************************************************************)
kAccuracy == 1

One == 10000000 * kAccuracy

Abs(x) == IF x < 0 THEN -x ELSE x

\* a * b on doubles: the exact product, truncated to the resolution; computed
\* in halves so that no intermediate exceeds the integer range
FMul(a, b) ==
  LET sg == IF (a < 0) # (b < 0) THEN -1 ELSE 1
      x  == Abs(a)
      y  == Abs(b)
      xh == x \div One
      xl == x % One
      yh == y \div One
      yl == y % One
  IN  sg * (xh * yh * One + xh * yl + xl * yh + ((xl * yl) \div One))

(***************************************************************************)
(* The heap.  AllocateMatrixMemory obtains a row-pointer array and one     *)
(* block per row; the row pointers are stored nowhere but in that array,   *)
(* so a grid is kept as one heap entry heap[g] = [live, rows]: live is the *)
(* row-pointer array, rows[i] = [live, data] the block matrix_[i] points   *)
(* to (not live: matrix_[i] is not set, or NULL after its release).        *)
(* matrix_ holds the grid's id, Null for nullptr.  A machine state         *)
(* s = [objs, heap, memerr, exc] threads the effects of a call; exc is the *)
(* exception in flight, memerr the memory errors committed.                *)
(***************************************************************************)
Null == 0

NoRow == [live |-> FALSE, data |-> <<>>]

FreeGrid == [live |-> FALSE, rows |-> <<>>]

DeadObj == [live |-> FALSE, rows_ |-> 0, cols_ |-> 0, matrix_ |-> Null]

Valid(h, p) == p \in DOMAIN h /\ h[p].live

MemErr(s, e) == [s EXCEPT !.memerr = @ \cup {e}]

Throw(s, e) == [s EXCEPT !.exc = e]

\* new double*[rows]: a fresh array (the lowest free id), also when rows = 0
NewArray(s, rows) ==
  LET free == {g \in DOMAIN s.heap : s.heap[g] = FreeGrid}
  IN  IF free = {}
      THEN [s |-> MemErr(s, "bad_alloc"), addr |-> Null]
      ELSE LET g == CHOOSE g \in free : \A b \in free : g <= b
           IN  [s |-> [s EXCEPT !.heap[g] =
                         [live |-> TRUE, rows |-> [k \in 1..rows |-> NoRow]]],
                addr |-> g]

\* matrix_[i] = new double[cols]{}
NewRow(s, p, i, cols) ==
  IF Valid(s.heap, p) /\ (i + 1) \in DOMAIN s.heap[p].rows
  THEN [s EXCEPT !.heap[p].rows[i + 1] =
                   [live |-> TRUE, data |-> [k \in 1..cols |-> 0]]]
  ELSE MemErr(s, "bad_access")

\* delete[] matrix_[i]; matrix_[i] = NULL
DeleteRow(s, p, i) ==
  IF Valid(s.heap, p) /\ (i + 1) \in DOMAIN s.heap[p].rows
  THEN [s EXCEPT !.heap[p].rows[i + 1] = NoRow]
  ELSE MemErr(s, "bad_access")

\* delete[] matrix_: nothing for nullptr, an error for an array already
\* released; rows still allocated stay behind, unreachable
DeleteArray(s, p) ==
  IF p = Null THEN s
  ELSE IF ~Valid(s.heap, p) THEN MemErr(s, "double_free")
  ELSE IF \A k \in DOMAIN s.heap[p].rows : ~s.heap[p].rows[k].live
  THEN [s EXCEPT !.heap[p] = FreeGrid]
  ELSE [s EXCEPT !.heap[p].live = FALSE]

CellOk(s, o, i, j) ==
  LET p == s.objs[o].matrix_
  IN  /\ Valid(s.heap, p)
      /\ (i + 1) \in DOMAIN s.heap[p].rows
      /\ s.heap[p].rows[i + 1].live
      /\ (j + 1) \in DOMAIN s.heap[p].rows[i + 1].data

\* matrix_[i][j] read
Load(s, o, i, j) ==
  IF CellOk(s, o, i, j)
  THEN s.heap[s.objs[o].matrix_].rows[i + 1].data[j + 1] ELSE 0

\* matrix_[i][j] = v
Store(s, o, i, j, v) ==
  IF CellOk(s, o, i, j)
  THEN [s EXCEPT !.heap[s.objs[o].matrix_].rows[i + 1].data[j + 1] = v]
  ELSE MemErr(s, "bad_access")

\* a read of matrix_[i][j], checked
Touch(s, o, i, j) == IF CellOk(s, o, i, j) THEN s ELSE MemErr(s, "bad_access")

(***************************************************************************)
(* Private helpers of Matrix.                                              *)
(***************************************************************************)
IsNaturalNumbers(rows, cols) == rows > 0 /\ cols > 0

IsSameDimensionMatrix(s, o, other) ==
  /\ s.objs[o].cols_ = s.objs[other].cols_
  /\ s.objs[o].rows_ = s.objs[other].rows_

InvalidateMatrix(s, o) ==
  [s EXCEPT !.objs[o].rows_ = 0, !.objs[o].cols_ = 0, !.objs[o].matrix_ = Null]

RECURSIVE AllocRows(_, _, _, _, _)
AllocRows(s, p, i, rows, cols) ==
  IF i >= rows THEN s
  ELSE AllocRows(NewRow(s, p, i, cols), p, i + 1, rows, cols)

AllocateMatrixMemory(s, o, rows, cols) ==
  LET nb == NewArray(s, rows)
      s1 == [nb.s EXCEPT !.objs[o].rows_ = rows, !.objs[o].cols_ = cols,
                         !.objs[o].matrix_ = nb.addr]
  IN  IF nb.addr = Null THEN s1 ELSE AllocRows(s1, nb.addr, 0, rows, cols)

RECURSIVE FreeRows(_, _, _)
FreeRows(s, o, i) ==
  IF i >= s.objs[o].rows_ THEN s
  ELSE FreeRows(DeleteRow(s, s.objs[o].matrix_, i), o, i + 1)

FreeMatrixMemory(s, o) ==
  InvalidateMatrix(DeleteArray(FreeRows(s, o, 0), s.objs[o].matrix_), o)

RECURSIVE CopyCells(_, _, _, _)
CopyCells(s, o, other, k) ==
  LET rows == s.objs[o].rows_
      cols == s.objs[o].cols_
  IN  IF k >= rows * cols THEN s
      ELSE LET i == k \div cols
               j == k % cols
           IN  CopyCells(Store(Touch(s, other, i, j), o, i, j,
                               Load(s, other, i, j)),
                         o, other, k + 1)

CopyMatrixElements(s, o, other) == CopyCells(s, o, other, 0)

CopyFrom(s, o, other) ==
  IF o # other
  THEN LET s1 == IF ~IsSameDimensionMatrix(s, o, other)
                 THEN AllocateMatrixMemory(FreeMatrixMemory(s, o), o,
                                           s.objs[other].rows_,
                                           s.objs[other].cols_)
                 ELSE s
       IN  CopyMatrixElements(s1, o, other)
  ELSE s

(***************************************************************************)
(* Constructors, destructor, assignment.                                   *)
(***************************************************************************)
\* Matrix(rows, cols): the instance comes to life only if nothing is thrown
MatrixRowsCols(s, o, rows, cols) ==
  IF ~IsNaturalNumbers(rows, cols)
  THEN Throw(s, "InvalidArgument")
  ELSE AllocateMatrixMemory([s EXCEPT !.objs[o].live = TRUE], o, rows, cols)

\* Matrix(const Matrix& other), this # &other for a new instance
MatrixCopy(s, o, other) ==
  CopyMatrixElements(
    AllocateMatrixMemory([s EXCEPT !.objs[o].live = TRUE], o,
                         s.objs[other].rows_, s.objs[other].cols_),
    o, other)

\* a move constructor that takes the members and leaves the source as it was
MatrixMoveShallow(s, o, other) ==
  [s EXCEPT !.objs[o] = [s.objs[other] EXCEPT !.live = TRUE]]

\* Matrix(Matrix&& other): members start as 0, 0, nullptr and are swapped
MatrixMove(s, o, other) ==
  [s EXCEPT !.objs[o] = [s.objs[other] EXCEPT !.live = TRUE],
            !.objs[other] = [DeadObj EXCEPT !.live = TRUE]]

\* ~Matrix()
MatrixDtor(s, o) ==
  LET s1 == IF s.objs[o].matrix_ # Null THEN FreeMatrixMemory(s, o) ELSE s
  IN  [s1 EXCEPT !.objs[o] = DeadObj]

\* operator=(const Matrix&)
AssignCopy(s, o, other) == IF o # other THEN CopyFrom(s, o, other) ELSE s

\* operator=(Matrix&&)
AssignMove(s, o, other) == IF o # other THEN CopyFrom(s, o, other) ELSE s

(***************************************************************************)
(* Locals of the member functions live in slots of their own: the local    *)
(* `result` of SetDimension and MulMatrix, the local `result` of the       *)
(* binary operators, and the temporary a binary operator returns.          *)
(***************************************************************************)
TmpLocal == 101

TmpResult == 102

TmpReturn == 103

Temps == {TmpLocal, TmpResult, TmpReturn}

(***************************************************************************)
(* Dimension mutators.                                                     *)
(***************************************************************************)
Min(a, b) == IF a < b THEN a ELSE b

RECURSIVE KeepCells(_, _, _, _, _)
\* result.matrix_[i][j] = matrix_[i][j] over old_rows x old_cols
KeepCells(s, o, old_rows, old_cols, k) ==
  IF k >= old_rows * old_cols THEN s
  ELSE LET i == k \div old_cols
           j == k % old_cols
       IN  KeepCells(Store(Touch(s, o, i, j), TmpLocal, i, j, Load(s, o, i, j)),
                     o, old_rows, old_cols, k + 1)

SwapMembers(s, a, b) ==
  [s EXCEPT !.objs[a] = [s.objs[b] EXCEPT !.live = s.objs[a].live],
            !.objs[b] = [s.objs[a] EXCEPT !.live = s.objs[b].live]]

\* a resize that swaps the replacement in without copying the old cells
SetDimensionFresh(s, o, new_rows, new_cols) ==
  IF ~IsNaturalNumbers(new_rows, new_cols) THEN Throw(s, "InvalidArgument")
  ELSE IF new_rows = s.objs[o].rows_ /\ new_cols = s.objs[o].cols_ THEN s
  ELSE LET s1 == MatrixRowsCols(s, TmpLocal, new_rows, new_cols)
       IN  MatrixDtor(SwapMembers(s1, o, TmpLocal), TmpLocal)

SetDimension(s, o, new_rows, new_cols) ==
  IF ~IsNaturalNumbers(new_rows, new_cols) THEN Throw(s, "InvalidArgument")
  ELSE IF new_rows = s.objs[o].rows_ /\ new_cols = s.objs[o].cols_ THEN s
  ELSE LET s1 == MatrixRowsCols(s, TmpLocal, new_rows, new_cols)
           old_rows == Min(s.objs[o].rows_, new_rows)
           old_cols == Min(s.objs[o].cols_, new_cols)
           s2 == KeepCells(s1, o, old_rows, old_cols, 0)
       IN  MatrixDtor(SwapMembers(s2, o, TmpLocal), TmpLocal)

SetRows(s, o, new_rows) == SetDimension(s, o, new_rows, s.objs[o].cols_)

SetCols(s, o, new_cols) == SetDimension(s, o, s.objs[o].rows_, new_cols)

(***************************************************************************)
(* Element access and in-place arithmetic.                                 *)
(***************************************************************************)
\* a bounds check that lets the index one past the end through
IndexThrowsInclusive(s, o, i, j) ==
  i > s.objs[o].rows_ \/ j > s.objs[o].cols_ \/ i < 0 \/ j < 0

\* operator()(i, j): the bounds check that precedes the access
IndexThrows(s, o, i, j) ==
  i >= s.objs[o].rows_ \/ j >= s.objs[o].cols_ \/ i < 0 \/ j < 0

\* m(i, j) = v
WriteAt(s, o, i, j, v) ==
  IF IndexThrows(s, o, i, j) THEN Throw(s, "OutOfRange")
  ELSE Store(s, o, i, j, v)

\* v = m(i, j)
ReadAt(s, o, i, j) ==
  IF IndexThrows(s, o, i, j) THEN Throw(s, "OutOfRange")
  ELSE Touch(s, o, i, j)

RECURSIVE AddCells(_, _, _, _, _)
\* matrix_[i][j] += sign * other.matrix_[i][j]
AddCells(s, o, other, sign, k) ==
  LET rows == s.objs[o].rows_
      cols == s.objs[o].cols_
  IN  IF k >= rows * cols THEN s
      ELSE LET i == k \div cols
               j == k % cols
           IN  AddCells(Store(Touch(Touch(s, o, i, j), other, i, j), o, i, j,
                              Load(s, o, i, j) + sign * Load(s, other, i, j)),
                        o, other, sign, k + 1)

\* an addition that validates the dimensions after it has added
SumMatrixLateCheck(s, o, other) ==
  LET s1 == AddCells(s, o, other, 1, 0)
  IN  IF ~IsSameDimensionMatrix(s, o, other) THEN Throw(s1, "LogicError") ELSE s1

SumMatrix(s, o, other) ==
  IF ~IsSameDimensionMatrix(s, o, other) THEN Throw(s, "LogicError")
  ELSE AddCells(s, o, other, 1, 0)

SubMatrix(s, o, other) ==
  IF ~IsSameDimensionMatrix(s, o, other) THEN Throw(s, "LogicError")
  ELSE AddCells(s, o, other, 0 - 1, 0)

RECURSIVE ScaleCells(_, _, _, _)
ScaleCells(s, o, num, k) ==
  LET rows == s.objs[o].rows_
      cols == s.objs[o].cols_
  IN  IF k >= rows * cols THEN s
      ELSE LET i == k \div cols
               j == k % cols
           IN  ScaleCells(Store(Touch(s, o, i, j), o, i, j,
                                FMul(Load(s, o, i, j), num)),
                          o, num, k + 1)

MulNumber(s, o, num) == ScaleCells(s, o, num, 0)

RECURSIVE MulCells(_, _, _, _)
\* result.matrix_[i][j] += matrix_[i][k] * other.matrix_[k][j], in loop order
MulCells(s, o, other, n) ==
  LET rows  == s.objs[o].rows_
      cols  == s.objs[o].cols_
      ocols == s.objs[other].cols_
  IN  IF n >= rows * ocols * cols THEN s
      ELSE LET i == n \div (ocols * cols)
               j == (n \div cols) % ocols
               k == n % cols
               s1 == Touch(Touch(Touch(s, TmpLocal, i, j), o, i, k), other, k, j)
           IN  MulCells(Store(s1, TmpLocal, i, j,
                              Load(s, TmpLocal, i, j)
                                + FMul(Load(s, o, i, k), Load(s, other, k, j))),
                        o, other, n + 1)

MulMatrix(s, o, other) ==
  IF s.objs[o].cols_ # s.objs[other].rows_ THEN Throw(s, "LogicError")
  ELSE LET s1 == MatrixRowsCols(s, TmpLocal, s.objs[o].rows_, s.objs[other].cols_)
       IN  IF s1.exc # "none" THEN s1
           ELSE MatrixDtor(AssignCopy(MulCells(s1, o, other, 0), o, TmpLocal),
                           TmpLocal)

(***************************************************************************)
(* Binary operators: copy the receiver into a local, apply the in-place    *)
(* operation, copy the local into the returned temporary.  On success the  *)
(* returned temporary is alive in TmpReturn; the caller destroys it.       *)
(***************************************************************************)
ReturnCopy(s) ==
  IF s.exc # "none" THEN MatrixDtor(s, TmpResult)
  ELSE MatrixDtor(MatrixCopy(s, TmpReturn, TmpResult), TmpResult)

OperatorPlus(s, o, other) ==
  ReturnCopy(SumMatrix(MatrixCopy(s, TmpResult, o), TmpResult, other))

OperatorMinus(s, o, other) ==
  ReturnCopy(SubMatrix(MatrixCopy(s, TmpResult, o), TmpResult, other))

OperatorTimes(s, o, other) ==
  ReturnCopy(MulMatrix(MatrixCopy(s, TmpResult, o), TmpResult, other))

OperatorTimesNumber(s, o, num) ==
  ReturnCopy(MulNumber(MatrixCopy(s, TmpResult, o), TmpResult, num))

(***************************************************************************)
(* The matrix an instance holds, as a value [rows, cols, a] with a[i][j]   *)
(* 1-based.  The const member functions below are functions of this value; *)
(* their locals are temporaries that never outlive the call.  Each yields  *)
(* an outcome [exc, val]: "terminate" is std::terminate, reached when an   *)
(* exception leaves a noexcept function.                                   *)
(***************************************************************************)
View(s, o) ==
  [rows |-> s.objs[o].rows_, cols |-> s.objs[o].cols_,
   a |-> [i \in 1..s.objs[o].rows_ |->
            [j \in 1..s.objs[o].cols_ |-> Load(s, o, i - 1, j - 1)]]]

\* the grid Matrix(rows, cols) allocates
ZeroMatrix(rows, cols) ==
  [rows |-> rows, cols |-> cols,
   a |-> [i \in 1..rows |-> [j \in 1..cols |-> 0]]]

NoMatrix == ZeroMatrix(0, 0)

Ok(v) == [exc |-> "none", val |-> v]

Fail(e) == [exc |-> e, val |-> NoMatrix]

IsSquareMatrix(mt) == mt.rows = mt.cols

IsMatrixNumber(mt) == mt.rows = 1 /\ mt.cols = 1

\* Transpose() const noexcept
Transpose(mt) ==
  IF ~IsNaturalNumbers(mt.cols, mt.rows) THEN Fail("terminate")
  ELSE Ok([ZeroMatrix(mt.cols, mt.rows) EXCEPT
             !.a = [j \in 1..mt.cols |-> [i \in 1..mt.rows |-> mt.a[i][j]]]])

RECURSIVE SubCols(_, _, _, _, _, _, _)
\* the inner loop of GetSubmatrix: old_j runs over the columns, new_j counts
\* the columns kept
SubCols(res, mt, old_i, new_i, deleted_col, old_j, new_j) ==
  IF old_j >= mt.cols THEN res
  ELSE IF old_j = deleted_col
       THEN SubCols(res, mt, old_i, new_i, deleted_col, old_j + 1, new_j)
       ELSE SubCols([res EXCEPT !.a[new_i + 1][new_j + 1] =
                                   mt.a[old_i + 1][old_j + 1]],
                    mt, old_i, new_i, deleted_col, old_j + 1, new_j + 1)

RECURSIVE SubRows(_, _, _, _, _, _)
\* the outer loop of GetSubmatrix
SubRows(res, mt, deleted_row, deleted_col, old_i, new_i) ==
  IF old_i >= mt.rows THEN res
  ELSE IF old_i = deleted_row
       THEN SubRows(res, mt, deleted_row, deleted_col, old_i + 1, new_i)
       ELSE SubRows(SubCols(res, mt, old_i, new_i, deleted_col, 0, 0),
                    mt, deleted_row, deleted_col, old_i + 1, new_i + 1)

\* GetSubmatrix(deleted_row, deleted_col) const noexcept, 0-based arguments
GetSubmatrix(mt, deleted_row, deleted_col) ==
  IF ~IsNaturalNumbers(mt.rows - 1, mt.cols - 1) THEN Fail("terminate")
  ELSE Ok(SubRows(ZeroMatrix(mt.rows - 1, mt.cols - 1), mt,
                  deleted_row, deleted_col, 0, 0))

RECURSIVE Determinant(_)
RECURSIVE DetTerms(_, _, _)
RECURSIVE DetTermsUnsigned(_, _, _)
\* a first-row expansion whose terms all carry the sign +
DetTermsUnsigned(mt, j, result) ==
  IF j >= mt.cols THEN result
  ELSE DetTermsUnsigned(mt, j + 1,
                        result + FMul(mt.a[1][j + 1],
                                      Determinant(GetSubmatrix(mt, 0, j).val).val))

\* the loop of Determinant over the first row
DetTerms(mt, j, result) ==
  IF j >= mt.cols THEN result
  ELSE IF Abs(mt.a[1][j + 1]) > kAccuracy
       THEN DetTerms(mt, j + 1,
                     result + FMul(mt.a[1][j + 1],
                                   Determinant(GetSubmatrix(mt, 0, j).val).val)
                                * (IF j % 2 = 0 THEN 1 ELSE 0 - 1))
       ELSE DetTerms(mt, j + 1, result)

\* Determinant() const: val is the number returned
Determinant(mt) ==
  IF ~IsSquareMatrix(mt) THEN [exc |-> "LogicError", val |-> 0]
  ELSE IF IsMatrixNumber(mt) THEN [exc |-> "none", val |-> mt.a[1][1]]
  ELSE [exc |-> "none", val |-> DetTerms(mt, 0, 0)]

\* CalcComplements() const
CalcComplements(mt) ==
  IF ~IsSquareMatrix(mt) THEN Fail("LogicError")
  ELSE IF ~IsNaturalNumbers(mt.rows, mt.cols) THEN Fail("InvalidArgument")
  ELSE IF IsMatrixNumber(mt)
       THEN Ok([ZeroMatrix(1, 1) EXCEPT !.a[1][1] = One])
       ELSE Ok([ZeroMatrix(mt.rows, mt.cols) EXCEPT
                  !.a = [i \in 1..mt.rows |-> [j \in 1..mt.cols |->
                           Determinant(GetSubmatrix(mt, i - 1, j - 1).val).val
                             * (IF (i - 1 + j - 1) % 2 = 0 THEN 1 ELSE 0 - 1)]]])

\* InverseMatrix() const.  The matrix returned is val * (1.0 / determinant);
\* the factor is kept as the divisor div, the quotient of a determinant of a
\* few units being beyond the integer range.
InverseMatrix(mt) ==
  LET determinant == Determinant(mt)
  IN  IF determinant.exc # "none"
      THEN [exc |-> determinant.exc, val |-> NoMatrix, div |-> 0]
      ELSE IF Abs(determinant.val) < kAccuracy
      THEN [exc |-> "LogicError", val |-> NoMatrix, div |-> 0]
      ELSE LET c == CalcComplements(mt)
               t == IF c.exc = "none" THEN Transpose(c.val) ELSE c
           IN  [exc |-> t.exc, val |-> t.val, div |-> determinant.val]

\* EqMatrix(other) const, on the values of the two instances
EqMatrix(same, mt, other) ==
  IF same THEN TRUE
  ELSE IF ~(mt.cols = other.cols /\ mt.rows = other.rows) THEN FALSE
  ELSE \A i \in 1..mt.rows : \A j \in 1..mt.cols :
         ~(Abs(mt.a[i][j] - other.a[i][j]) > kAccuracy)

(***************************************************************************)
(* The program state and its steps.  last names the member function the    *)
(* caller invoked last and the exception that left it.  After              *)
(* std::terminate nothing runs any more.                                   *)
(***************************************************************************)
Slots == DOMAIN objs \ Temps

Machine == [objs |-> objs, heap |-> heap, memerr |-> memerr, exc |-> "none"]

\* the dimensions callers ask for: none, and the sizes up to 2
DimArgs == 0..2

\* the indices callers use: one before the first, up to one past the last
IndexArgs == (0 - 1)..2

Running == last.exc # "terminate"

(***************************************************************************)
(* The addresses operator new hands out are unspecified and the program    *)
(* never compares them, so a state is kept up to a renaming of the grids:  *)
(* when every allocated grid is owned by exactly one live instance, the    *)
(* grid of the instance in slot o is given the id o.  A state with shared, *)
(* dangling or leaked storage is kept as it is.                            *)
(***************************************************************************)
Owners(s) == {o \in DOMAIN s.objs : s.objs[o].matrix_ # Null}

WellFormed(s) ==
  /\ \A o \in Owners(s) : s.objs[o].live /\ Valid(s.heap, s.objs[o].matrix_)
  /\ \A o1, o2 \in Owners(s) :
       o1 # o2 => s.objs[o1].matrix_ # s.objs[o2].matrix_
  /\ \A g \in DOMAIN s.heap :
       s.heap[g] # FreeGrid => \E o \in Owners(s) : s.objs[o].matrix_ = g

Canon(s) ==
  IF ~WellFormed(s) THEN s
  ELSE [s EXCEPT !.heap = [g \in DOMAIN s.heap |->
                             IF g \in Owners(s)
                             THEN s.heap[s.objs[g].matrix_] ELSE FreeGrid],
                 !.objs = [o \in DOMAIN s.objs |->
                             IF o \in Owners(s)
                             THEN [s.objs[o] EXCEPT !.matrix_ = o]
                             ELSE s.objs[o]]]

Commit(s, op) ==
  /\ objs' = Canon(s).objs
  /\ heap' = Canon(s).heap
  /\ memerr' = s.memerr
  /\ last' = [op |-> op, exc |-> s.exc]
  /\ UNCHANGED <<arg, out>>

\* a const member function: the state stays, the outcome is recorded
Observe(op, exc) ==
  /\ last' = [op |-> op, exc |-> exc]
  /\ UNCHANGED <<objs, heap, memerr, arg, out>>

\* the temporary a binary operator returned dies at the end of the statement
Discard(s) == IF s.exc = "none" THEN MatrixDtor(s, TmpReturn) ELSE s

Construct(o, rows, cols) ==
  /\ Running /\ ~objs[o].live
  /\ Commit(MatrixRowsCols(Machine, o, rows, cols), "Matrix")

CopyConstruct(o, other) ==
  /\ Running /\ ~objs[o].live /\ objs[other].live
  /\ Commit(MatrixCopy(Machine, o, other), "MatrixCopy")

MoveConstruct(o, other) ==
  /\ Running /\ ~objs[o].live /\ objs[other].live
  /\ Commit(MatrixMove(Machine, o, other), "MatrixMove")

Destroy(o) ==
  /\ Running /\ objs[o].live
  /\ Commit(MatrixDtor(Machine, o), "Destroy")

CopyAssign(o, other) ==
  /\ Running /\ objs[o].live /\ objs[other].live
  /\ Commit(AssignCopy(Machine, o, other), "AssignCopy")

MoveAssign(o, other) ==
  /\ Running /\ objs[o].live /\ objs[other].live
  /\ Commit(AssignMove(Machine, o, other), "AssignMove")

DoSetRows(o, n) ==
  /\ Running /\ objs[o].live
  /\ Commit(SetRows(Machine, o, n), "SetRows")

DoSetCols(o, n) ==
  /\ Running /\ objs[o].live
  /\ Commit(SetCols(Machine, o, n), "SetCols")

Write(o, i, j, v) ==
  /\ Running /\ objs[o].live
  /\ Commit(WriteAt(Machine, o, i, j, v), "Write")

Read(o, i, j) ==
  /\ Running /\ objs[o].live
  /\ Commit(ReadAt(Machine, o, i, j), "Read")

PlusAssign(o, other) ==
  /\ Running /\ objs[o].live /\ objs[other].live
  /\ Commit(SumMatrix(Machine, o, other), "SumMatrix")

MinusAssign(o, other) ==
  /\ Running /\ objs[o].live /\ objs[other].live
  /\ Commit(SubMatrix(Machine, o, other), "SubMatrix")

TimesAssign(o, other) ==
  /\ Running /\ objs[o].live /\ objs[other].live
  /\ Commit(MulMatrix(Machine, o, other), "MulMatrix")

TimesAssignNumber(o, num) ==
  /\ Running /\ objs[o].live
  /\ Commit(MulNumber(Machine, o, num), "MulNumber")

Plus(o, other) ==
  /\ Running /\ objs[o].live /\ objs[other].live
  /\ Commit(Discard(OperatorPlus(Machine, o, other)), "OperatorPlus")

Minus(o, other) ==
  /\ Running /\ objs[o].live /\ objs[other].live
  /\ Commit(Discard(OperatorMinus(Machine, o, other)), "OperatorMinus")

Times(o, other) ==
  /\ Running /\ objs[o].live /\ objs[other].live
  /\ Commit(Discard(OperatorTimes(Machine, o, other)), "OperatorTimes")

TimesNumber(o, num) ==
  /\ Running /\ objs[o].live
  /\ Commit(Discard(OperatorTimesNumber(Machine, o, num)), "OperatorTimesNumber")

DoTranspose(o) ==
  /\ Running /\ objs[o].live
  /\ Observe("Transpose", Transpose(View(Machine, o)).exc)

DoDeterminant(o) ==
  /\ Running /\ objs[o].live
  /\ Observe("Determinant", Determinant(View(Machine, o)).exc)

DoCalcComplements(o) ==
  /\ Running /\ objs[o].live
  /\ Observe("CalcComplements", CalcComplements(View(Machine, o)).exc)

DoInverseMatrix(o) ==
  /\ Running /\ objs[o].live
  /\ Observe("InverseMatrix", InverseMatrix(View(Machine, o)).exc)

\* Matrix(size) : Matrix(size, size)
ConstructSquare(o, size) ==
  /\ Running /\ ~objs[o].live
  /\ Commit(MatrixRowsCols(Machine, o, size, size), "MatrixSize")

\* Matrix() : Matrix(3, 3)
ConstructDefault(o) ==
  /\ Running /\ ~objs[o].live
  /\ Commit(MatrixRowsCols(Machine, o, 3, 3), "MatrixDefault")

(***************************************************************************)
(* Spec: the lifetimes of NumObj instances, every operation interleaved    *)
(* with every other.  What is stored in a grid has no bearing on who owns  *)
(* it, so the elements written are zeros.                                  *)
(***************************************************************************)
Init ==
  /\ objs = [o \in (1..NumObj) \cup Temps |-> DeadObj]
  /\ heap = [g \in (1..NumObj) \cup Temps |-> FreeGrid]
  /\ memerr = {}
  /\ last = [op |-> "start", exc |-> "none"]
  /\ arg = NoMatrix
  /\ out = [op |-> "start", exc |-> "none"]

Next ==
  \/ \E o \in Slots, rows, cols \in DimArgs : Construct(o, rows, cols)
  \/ \E o \in Slots, size \in DimArgs : ConstructSquare(o, size)
  \/ \E o, other \in Slots : CopyConstruct(o, other)
  \/ \E o, other \in Slots : MoveConstruct(o, other)
  \/ \E o \in Slots : Destroy(o)
  \/ \E o, other \in Slots : CopyAssign(o, other)
  \/ \E o, other \in Slots : MoveAssign(o, other)
  \/ \E o \in Slots, n \in DimArgs : DoSetRows(o, n)
  \/ \E o \in Slots, n \in DimArgs : DoSetCols(o, n)
  \/ \E o \in Slots, i, j \in IndexArgs : Write(o, i, j, 0)
  \/ \E o \in Slots, i, j \in IndexArgs : Read(o, i, j)
  \/ \E o, other \in Slots : PlusAssign(o, other)
  \/ \E o, other \in Slots : MinusAssign(o, other)
  \/ \E o, other \in Slots : TimesAssign(o, other)
  \/ \E o \in Slots : TimesAssignNumber(o, One)
  \/ \E o, other \in Slots : Plus(o, other)
  \/ \E o, other \in Slots : Minus(o, other)
  \/ \E o, other \in Slots : Times(o, other)
  \/ \E o \in Slots : TimesNumber(o, One)
  \/ \E o \in Slots : DoTranspose(o)
  \/ \E o \in Slots : DoDeterminant(o)
  \/ \E o \in Slots : DoCalcComplements(o)
  \/ \E o \in Slots : DoInverseMatrix(o)

Spec == Init /\ [][Next]_vars

(***************************************************************************)
(* SpecApply: one operation applied to operands in every state an instance *)
(* can be in.  Slot 1 is the receiver, slot 2 the argument, slot 3 the     *)
(* place of a newly constructed instance.  An operand is a matrix of 1 or  *)
(* 2 rows and columns with the elements a caller wrote, the moved-from     *)
(* state a move constructor leaves behind, or the copy of such an          *)
(* instance, which holds an array of no rows.  An operation on the         *)
(* receiver alone is applied where the argument is absent.                 *)
(***************************************************************************)
Vals == {v * One : v \in 0..MaxVal}

Matrices(dims, entries) ==
  UNION {UNION {{[rows |-> r, cols |-> c, a |-> f] :
                   f \in [1..r -> [1..c -> entries]]} : c \in dims} : r \in dims}

Operands ==
  {[kind |-> "matrix", val |-> mt] : mt \in Matrices(1..2, Vals)}
    \cup {[kind |-> k, val |-> NoMatrix] : k \in {"moved", "empty"}}

Absent == [kind |-> "absent", val |-> NoMatrix]

\* the instance and the grid of an operand placed in slot o
ObjOf(x, o) ==
  IF x.kind = "absent" THEN DeadObj
  ELSE [live |-> TRUE, rows_ |-> x.val.rows, cols_ |-> x.val.cols,
        matrix_ |-> IF x.kind = "moved" THEN Null ELSE o]

GridOf(x) ==
  IF x.kind \in {"absent", "moved"} THEN FreeGrid
  ELSE [live |-> TRUE,
        rows |-> [i \in 1..x.val.rows |-> [live |-> TRUE, data |-> x.val.a[i]]]]

InitApply ==
  /\ \E x \in Operands, y \in Operands \cup {Absent} :
       /\ objs = [o \in {1, 2, 3} \cup Temps |->
                    IF o = 1 THEN ObjOf(x, 1)
                    ELSE IF o = 2 THEN ObjOf(y, 2) ELSE DeadObj]
       /\ heap = [g \in {1, 2, 3} \cup Temps |->
                    IF g = 1 THEN GridOf(x)
                    ELSE IF g = 2 THEN GridOf(y) ELSE FreeGrid]
  /\ memerr = {}
  /\ last = [op |-> "start", exc |-> "none"]
  /\ arg = NoMatrix
  /\ out = [op |-> "start", exc |-> "none"]

\* one operation per run; an operation on the receiver alone runs where the
\* argument is absent
Once == last.op = "start"

Alone == last.op = "start" /\ ~objs[2].live

NextApply ==
  \/ \E rows, cols \in DimArgs : Alone /\ Construct(3, rows, cols)
  \/ \E size \in DimArgs : Alone /\ ConstructSquare(3, size)
  \/ Alone /\ ConstructDefault(3)
  \/ Alone /\ CopyConstruct(3, 1)
  \/ Alone /\ MoveConstruct(3, 1)
  \/ Alone /\ Destroy(1)
  \/ \E other \in {1, 2} : Once /\ CopyAssign(1, other)
  \/ \E other \in {1, 2} : Once /\ MoveAssign(1, other)
  \/ \E n \in DimArgs : Alone /\ DoSetRows(1, n)
  \/ \E n \in DimArgs : Alone /\ DoSetCols(1, n)
  \/ \E i, j \in IndexArgs, v \in Vals : Alone /\ Write(1, i, j, v)
  \/ \E i, j \in IndexArgs : Alone /\ Read(1, i, j)
  \/ \E other \in {1, 2} : Once /\ PlusAssign(1, other)
  \/ \E other \in {1, 2} : Once /\ MinusAssign(1, other)
  \/ \E other \in {1, 2} : Once /\ TimesAssign(1, other)
  \/ \E num \in Vals : Alone /\ TimesAssignNumber(1, num)
  \/ \E other \in {1, 2} : Once /\ Plus(1, other)
  \/ \E other \in {1, 2} : Once /\ Minus(1, other)
  \/ \E other \in {1, 2} : Once /\ Times(1, other)
  \/ \E num \in Vals : Alone /\ TimesNumber(1, num)
  \/ Alone /\ DoTranspose(1)
  \/ Alone /\ DoDeterminant(1)
  \/ Alone /\ DoCalcComplements(1)
  \/ Alone /\ DoInverseMatrix(1)

SpecApply == InitApply /\ [][NextApply]_vars

(***************************************************************************)
(* SpecAlg: the algorithms applied to a matrix value.  The inputs are the  *)
(* square matrices of size 1 to 3 with entries 0..MaxEntry, those of size  *)
(* 1 and 2 with signed entries and with entries at and around the          *)
(* tolerance, matrices that are not square, and the empty matrix.          *)
(***************************************************************************)
Entries == {e * One : e \in 0..MaxEntry}

Signed == {0 - One, 0, One, 2 * One}

NearZero == {0, kAccuracy, 0 - kAccuracy, 2 * kAccuracy, One}

Squares(sizes, entries) ==
  UNION {{[rows |-> n, cols |-> n, a |-> f] :
            f \in [1..n -> [1..n -> entries]]} : n \in sizes}

AlgInputs ==
  Squares(1..3, Entries) \cup Squares(1..2, Signed) \cup Squares(1..2, NearZero)
    \cup {mt \in Matrices(1..2, {0, One}) : mt.rows # mt.cols} \cup {NoMatrix}

InitAlg ==
  /\ arg \in AlgInputs
  /\ out = [op |-> "start", exc |-> "none"]
  /\ objs = [o \in Temps |-> DeadObj]
  /\ heap = [g \in Temps |-> FreeGrid]
  /\ memerr = {}
  /\ last = [op |-> "start", exc |-> "none"]

Result(op, r) ==
  /\ out.op = "start"
  /\ out' = [op |-> op, exc |-> r.exc, val |-> r.val]
  /\ UNCHANGED <<objs, heap, memerr, last, arg>>

AlgTranspose == Result("Transpose", Transpose(arg))

AlgDeterminant == Result("Determinant", Determinant(arg))

AlgCalcComplements == Result("CalcComplements", CalcComplements(arg))

AlgInverseMatrix == Result("InverseMatrix", InverseMatrix(arg))

NextAlg ==
  \/ AlgTranspose
  \/ AlgDeterminant
  \/ AlgCalcComplements
  \/ AlgInverseMatrix

SpecAlg == InitAlg /\ [][NextAlg]_vars

(***************************************************************************)
(* What the claims are stated with.                                        *)
(***************************************************************************)
\* the matrix the instance in slot o holds
Mat(o) == View(Machine, o)

\* the moved-from empty state: rows = 0, cols = 0, storage absent
MovedFrom(o) ==
  objs[o].live /\ objs[o].rows_ = 0 /\ objs[o].cols_ = 0 /\ objs[o].matrix_ = Null

\* the grid of the instance in slot o has exactly rows_ x cols_ elements
GridMatches(o) ==
  /\ Valid(heap, objs[o].matrix_)
  /\ Len(heap[objs[o].matrix_].rows) = objs[o].rows_
  /\ \A i \in 1..objs[o].rows_ :
       /\ heap[objs[o].matrix_].rows[i].live
       /\ Len(heap[objs[o].matrix_].rows[i].data) = objs[o].cols_

Thrown == {"InvalidArgument", "LogicError", "OutOfRange"}

\* the caller-visible instances and their storage are what they were
Untouched ==
  /\ objs' = objs
  /\ heap' = heap
  /\ memerr' = memerr
  /\ \A o \in Slots : Mat(o)' = Mat(o)

RECURSIVE InnerProduct(_, _, _, _, _)
\* sum over k = 1..n of A[i][k] * B[k][j], for elements that are whole numbers
InnerProduct(A, B, i, j, n) ==
  IF n = 0 THEN 0
  ELSE InnerProduct(A, B, i, j, n - 1) + (A.a[i][n] \div One) * B.a[n][j]

Product(A, B) ==
  [rows |-> A.rows, cols |-> B.cols,
   a |-> [i \in 1..A.rows |-> [j \in 1..B.cols |->
            InnerProduct(A, B, i, j, A.cols)]]]

Bijections(n) ==
  {f \in [1..n -> 1..n] : \A i, j \in 1..n : i # j => f[i] # f[j]}

Signature(f, n) ==
  IF Cardinality({p \in (1..n) \X (1..n) : p[1] < p[2] /\ f[p[1]] > f[p[2]]}) % 2 = 0
  THEN 1 ELSE 0 - 1

RECURSIVE AlongPermutation(_, _, _)
\* the product of the entries mt[i][f[i]], i = 1..n, in whole units
AlongPermutation(mt, f, n) ==
  IF n = 0 THEN 1 ELSE AlongPermutation(mt, f, n - 1) * (mt.a[n][f[n]] \div One)

RECURSIVE LeibnizSum(_, _)
LeibnizSum(mt, perms) ==
  IF perms = {} THEN 0
  ELSE LET f == CHOOSE f \in perms : TRUE
       IN  Signature(f, mt.rows) * AlongPermutation(mt, f, mt.rows)
             + LeibnizSum(mt, perms \ {f})

\* the determinant of a square matrix of whole numbers, in whole units
Leibniz(mt) == LeibnizSum(mt, Bijections(mt.rows))

\* mt without its first row and its column c (1-based)
FirstRowMinor(mt, c) ==
  [rows |-> mt.rows - 1, cols |-> mt.cols - 1,
   a |-> [i \in 1..(mt.rows - 1) |-> [j \in 1..(mt.cols - 1) |->
            mt.a[i + 1][IF j < c THEN j ELSE j + 1]]]]

WholeSquare(mt) ==
  /\ mt.rows = mt.cols
  /\ mt.rows \in 1..3
  /\ \A i, j \in 1..mt.rows : mt.a[i][j] % One = 0

(***************************************************************************)
(* C1.  Move construction and move assignment from a distinct source both  *)
(* hand the source's matrix to the destination and leave the source in the *)
(* moved-from empty state; a self-move changes nothing.                    *)
(***************************************************************************)
C1_MoveTransfersStorage ==
  [][/\ MoveConstruct(3, 1) => Mat(3)' = Mat(1) /\ MovedFrom(1)'
     /\ MoveAssign(1, 2) => Mat(1)' = Mat(2) /\ MovedFrom(2)'
     /\ MoveAssign(1, 1) => Mat(1)' = Mat(1) /\ objs' = objs /\ heap' = heap]_vars

(***************************************************************************)
(* C2.  Every live instance that is not in the moved-from state has        *)
(* rows > 0 and cols > 0 and a grid of exactly rows x cols elements.       *)
(***************************************************************************)
C2_LiveInstancesHavePositiveDimensions ==
  \A o \in Slots :
    objs[o].live /\ ~MovedFrom(o) =>
      objs[o].rows_ > 0 /\ objs[o].cols_ > 0 /\ GridMatches(o)

(***************************************************************************)
(* C3.  No two instances refer to the same grid, no instance refers to a   *)
(* released grid, no block is released twice or used after its release,    *)
(* and every allocated grid belongs to a live instance, so that nothing    *)
(* stays allocated once every instance is destroyed.                       *)
(***************************************************************************)
C3_StorageOwnedOnce ==
  /\ memerr = {}
  /\ \A o \in DOMAIN objs :
       objs[o].matrix_ # Null => objs[o].live /\ GridMatches(o)
  /\ \A o1, o2 \in DOMAIN objs :
       o1 # o2 /\ objs[o1].matrix_ # Null => objs[o1].matrix_ # objs[o2].matrix_
  /\ \A g \in DOMAIN heap :
       heap[g] # FreeGrid =>
         heap[g].live /\ \E o \in Slots : objs[o].live /\ objs[o].matrix_ = g

\* the last instance has been destroyed and nothing is allocated
C3_Witness ==
  /\ last.op = "Destroy"
  /\ \A o \in Slots : ~objs[o].live
  /\ \A g \in DOMAIN heap : heap[g] = FreeGrid

(***************************************************************************)
(* C4.  A successful SetRows(n) yields n x cols and a successful           *)
(* SetCols(n) yields rows x n: a cell inside the old and the new bounds    *)
(* keeps its value, a cell outside the old bounds is 0, the grid has no    *)
(* cell outside the new bounds; with n the current dimension nothing       *)
(* changes.                                                                *)
(***************************************************************************)
ResizedTo(rows, cols) ==
  /\ Mat(1)'.rows = rows
  /\ Mat(1)'.cols = cols
  /\ GridMatches(1)'
  /\ memerr' = {}
  /\ \A i \in 1..rows : \A j \in 1..cols :
       Mat(1)'.a[i][j] =
         IF i <= Mat(1).rows /\ j <= Mat(1).cols THEN Mat(1).a[i][j] ELSE 0
  /\ (rows = Mat(1).rows /\ cols = Mat(1).cols => objs' = objs /\ heap' = heap)

C4_ResizeKeepsOverlap ==
  [][last'.op \in {"SetRows", "SetCols"} => \A n \in DimArgs :
       /\ DoSetRows(1, n) /\ last'.exc = "none" => n > 0 /\ ResizedTo(n, Mat(1).cols)
       /\ DoSetCols(1, n) /\ last'.exc = "none" => n > 0 /\ ResizedTo(Mat(1).rows, n)
    ]_vars

\* a row was added below a row that holds a nonzero element
C4_Witness ==
  /\ last = [op |-> "SetRows", exc |-> "none"]
  /\ objs[1].rows_ = 2 /\ objs[1].cols_ = 2
  /\ Mat(1).a[1] = <<One, One>>
  /\ Mat(1).a[2] = <<0, 0>>

(***************************************************************************)
(* C5.  When an operation fails with InvalidArgument, LogicError or        *)
(* OutOfRange, the dimensions and the elements of the receiver and of the  *)
(* argument are what they were before the call.                            *)
(***************************************************************************)
C5_FailureChangesNothing == [][last'.exc \in Thrown => Untouched]_vars

\* an addition of matrices of different dimensions has failed
C5_Witness ==
  /\ last = [op |-> "SumMatrix", exc |-> "LogicError"]
  /\ objs[1].rows_ = 2 /\ objs[2].rows_ = 1
  /\ Mat(1).a[1][1] = One /\ Mat(2).a[1][1] = One

(***************************************************************************)
(* C6.  Indexed access (i, j) fails with OutOfRange exactly when i < 0,    *)
(* j < 0, i >= rows or j >= cols, in every state of the instance, and      *)
(* then touches no storage; otherwise it designates the element of row i   *)
(* and column j, and a write through it changes that element only.         *)
(***************************************************************************)
OutOfBounds(i, j) == i < 0 \/ j < 0 \/ i >= objs[1].rows_ \/ j >= objs[1].cols_

C6_IndexedAccessIsChecked ==
  [][last'.op \in {"Read", "Write"} => \A i, j \in IndexArgs :
       /\ Read(1, i, j) =>
            /\ last'.exc = (IF OutOfBounds(i, j) THEN "OutOfRange" ELSE "none")
            /\ Untouched /\ memerr' = {}
       /\ \A v \in Vals : Write(1, i, j, v) =>
            /\ last'.exc = (IF OutOfBounds(i, j) THEN "OutOfRange" ELSE "none")
            /\ memerr' = {}
            /\ IF OutOfBounds(i, j) THEN Untouched
               ELSE /\ Mat(1)' = [Mat(1) EXCEPT !.a[i + 1][j + 1] = v]
                    /\ objs' = objs
    ]_vars

\* an access to a moved-from instance has failed
C6_Witness ==
  /\ last = [op |-> "Write", exc |-> "OutOfRange"]
  /\ MovedFrom(1)

(***************************************************************************)
(* C7.  A *= B and A * B fail with LogicError when cols(A) # rows(B);      *)
(* otherwise the result is the rows(A) x cols(B) matrix of the inner       *)
(* products, A *= B leaves A holding it and B unchanged, also when B is A. *)
(***************************************************************************)
C7_ProductIsInnerProducts ==
  [][\A other \in {1, 2} :
       /\ TimesAssign(1, other) =>
            IF Mat(1).cols # Mat(other).rows THEN last'.exc = "LogicError"
            ELSE /\ last'.exc = "none"
                 /\ Mat(1)' = Product(Mat(1), Mat(other))
                 /\ other # 1 => Mat(other)' = Mat(other)
       /\ Times(1, other) =>
            IF Mat(1).cols # Mat(other).rows THEN last'.exc = "LogicError"
            ELSE /\ last'.exc = "none"
                 /\ View(OperatorTimes(Machine, 1, other), TmpReturn)
                      = Product(Mat(1), Mat(other))
                 /\ Untouched
    ]_vars

(***************************************************************************)
(* C8.  InverseMatrix of a square matrix fails with LogicError when the    *)
(* determinant d has |d| <= kAccuracy, |d| = kAccuracy included, and       *)
(* succeeds when |d| > kAccuracy.                                          *)
(***************************************************************************)
C8_InverseFailsUpToTolerance ==
  out.op = "InverseMatrix" /\ IsSquareMatrix(arg) =>
    out.exc = (IF Abs(Determinant(arg).val) <= kAccuracy
               THEN "LogicError" ELSE "none")

(***************************************************************************)
(* C9.  Transpose never fails, in any state of the receiver, the           *)
(* moved-from state included: it returns the matrix with rows and columns  *)
(* swapped, result[j][i] = this[i][j], whose transpose is the receiver's   *)
(* matrix again.                                                           *)
(***************************************************************************)
C9_TransposeNeverFails ==
  last.op = "Transpose" =>
    /\ last.exc = "none"
    /\ \A o \in Slots : objs[o].live =>
         LET t == Transpose(Mat(o))
         IN  /\ t.exc = "none"
             /\ t.val.rows = Mat(o).cols /\ t.val.cols = Mat(o).rows
             /\ \A i \in 1..Mat(o).rows : \A j \in 1..Mat(o).cols :
                  t.val.a[j][i] = Mat(o).a[i][j]
             /\ Transpose(t.val) = Ok(Mat(o))

(***************************************************************************)
(* C10.  For a square matrix of size 1 to 3 with whole entries,            *)
(* Determinant returns the Leibniz sum over the permutations: the single   *)
(* element for size 1, and GetSubmatrix(0, j) is the matrix without row 0  *)
(* and column j, the other elements in their order.                        *)
(***************************************************************************)
C10_DeterminantIsLeibnizSum ==
  out.op = "Determinant" /\ WholeSquare(arg) =>
    /\ out.exc = "none"
    /\ out.val = Leibniz(arg) * One
    /\ arg.rows = 1 => out.val = arg.a[1][1]
    /\ arg.rows > 1 =>
         \A j \in 0..(arg.cols - 1) :
           GetSubmatrix(arg, 0, j) = Ok(FirstRowMinor(arg, j + 1))

\* the determinant of a matrix of size 3 has been computed and is negative
C10_Witness ==
  /\ out.op = "Determinant"
  /\ WholeSquare(arg) /\ arg.rows = 3
  /\ out.val = (0 - 2) * One

====
